---- MODULE Spec2Model ----
(***************************************************************************)
(* A model of the two tools of the repository:                             *)
(*   tools/fetch-magicians.py  the forum archiver (fetch_json and callers) *)
(*   tools/convert_dataset.py  the dataset converter (convert and helpers)*)
(* Every call of the archiver is a frame with its own program counter; a   *)
(* frame that calls fetch_json waits until the fetch_json frame has        *)
(* returned or raised.  The server is the environment: what it answers is  *)
(* drawn from the ranges in srv, and every request may also fail.          *)
(***************************************************************************)
EXTENDS Integers, Sequences, FiniteSets, TLC

VARIABLES
    srv,        \* the ranges the server's answers are drawn from
    log,        \* every request, sleep and file write, in program order
    faults,     \* failed responses so far
    fjPc, fjPath, attempt, fjResult,            \* frame of fetch_json
    outs,       \* what the server answered to each attempt of the running call
    ctPc, ctCat, limit, topics, page, ctResult, \* frame of fetch_category_topics
    fetched,    \* what each page fetch of the running call gave (its `data`)
    tpPc, tpId, data, loaded_ids, missing, tpResult,  \* frame of fetch_topic
    mores,      \* what each follow-up fetch of the running call gave (its `more`)
    mainPc, args, cats, sel, ci, mainTopics, ti, exitStatus,  \* frame of main
    listed,     \* per listing main obtained: its directory and its topics
    fulls,      \* per topic main handled: its directory, id and fetch_topic's result
    hexPc, hexIn, hexOut, hexAgain, \* a call of the converter's functions
    cvPc, test, alloc, env, txs,    \* frame of convert
    written,    \* the output files convert has written, in order
    cvErr       \* the key of the KeyError that ended convert

fjVars == <<fjPc, fjPath, attempt, fjResult, outs>>
ctVars == <<ctPc, ctCat, limit, topics, page, ctResult, fetched>>
tpVars == <<tpPc, tpId, data, loaded_ids, missing, tpResult, mores>>
mainVars == <<mainPc, args, cats, sel, ci, mainTopics, ti, exitStatus, listed, fulls>>
\* the state of the converter
hexVars == <<hexPc, hexIn, hexOut, hexAgain>>
convVars == <<cvPc, test, alloc, env, txs, written, cvErr>>
cvVars == <<hexVars, convVars>>
vars == <<srv, log, faults, fjVars, ctVars, tpVars, mainVars, cvVars>>

----------------------------------------------------------------------------
(* Bounds of the model.                                                    *)

\* failed responses (429, other HTTP error, network error) in one run
MaxFaults == 3
\* topics on one listing page
MaxBatch == 2
\* listing pages the server offers when no limit is asked for
MaxPages == 4
\* the largest --limit tried
MaxLimit == 3
\* stream lengths go up to MaxChunks chunks (plus a few posts)
MaxChunks == 2
\* hex digits of a short input of pad_hex32 and clean_hex
MaxDigits == 4

----------------------------------------------------------------------------
(* Program constants.                                                      *)

\* range(3): the attempts of one fetch_json call
Attempts == 3
\* attempt < 2: the last attempt index that still retries a network error
LastRetry == 2
\* time.sleep(2) after a network error
UrlErrorDelay == 2
\* REQUEST_DELAY = 1.0
REQUEST_DELAY == 1
\* missing[:20]
ChunkSize == 20
\* limit=args.limit or 50
DefaultSearchLimit == 50
\* topic_data.get("id", "unknown"): the file stem "unknown", which is no topic id
UnknownId == 0
\* v.zfill(64)
PadWidth == 64

----------------------------------------------------------------------------
(* Values.                                                                 *)

\* Python's None, as fetch_json and fetch_topic return it
None == [kind |-> "none"]

\* Python truthiness of a fetch result: None is falsy, a decoded non-empty
\* JSON object is truthy
Truthy(d) == d.kind # "none"

\* a call of fetch_json, and each HTTP request the call issues
CallEvent(p) == [ev |-> "call", path |-> p]
ReqEvent(p) == [ev |-> "req", path |-> p]
SleepEvent(d) == [ev |-> "sleep", d |-> d]
\* os.makedirs(dir), a topic file <dir>/<name>.json, the file
\* <dir>/_listing.json, and the one message that reports an error
MkdirEvent(dir) == [ev |-> "mkdir", dir |-> dir]
WriteEvent(dir, name) == [ev |-> "write", dir |-> dir, name |-> name]
ListingEvent(dir) == [ev |-> "listing", dir |-> dir]
PrintEvent(msg) == [ev |-> "print", msg |-> msg]

Calls(l) == SelectSeq(l, LAMBDA e : e.ev = "call")
Requests(l) == SelectSeq(l, LAMBDA e : e.ev = "req")
Sleeps(l) == SelectSeq(l, LAMBDA e : e.ev = "sleep")
Writes(l) == SelectSeq(l, LAMBDA e : e.ev = "write")

\* s[a..] of a sequence, 1-based, empty when a is past the end
Drop(s, n) == SubSeq(s, n + 1, Len(s))
\* s[:n]
Take(s, n) == SubSeq(s, 1, IF n < Len(s) THEN n ELSE Len(s))

----------------------------------------------------------------------------
(* The server.  A request path is a record; the decoded body the server    *)
(* answers with depends on the path and is drawn from the ranges of srv.   *)

CategoriesPath == [kind |-> "categories"]
ListingPath(cat, pg) == [kind |-> "c", slug |-> cat.slug, id |-> cat.id, page |-> pg]
TopicPath(id) == [kind |-> "t", id |-> id]
PostsPath(id, chunk) == [kind |-> "posts", id |-> id, post_ids |-> chunk]
SearchPath(q) == [kind |-> "search", q |-> q]

\* the j-th topic of page pg of category cid
TopicIdAt(cid, pg, j) == cid * 100 + pg * 10 + j

\* the i-th post id of a stream of n posts (ids are not positions)
PostIdAt(n, i) == 100 + n - i

CategoriesBody == [kind |-> "categories", categories |-> srv.cats]

ListingBody(p, n, more) ==
    [kind |-> "listing",
     topics |-> [j \in 1..n |-> [id |-> TopicIdAt(p.id, p.page, j)]],
     more |-> more]

\* a topic's first page: the whole stream and the posts loaded with it, which
\* are the first k or the last k of the stream
TopicBody(id, s) ==
    LET stream == [i \in 1..s.n |-> PostIdAt(s.n, i)]
    IN  [kind |-> "topic", id |-> id, stream |-> stream,
         posts |-> IF s.tail THEN Drop(stream, s.n - s.k) ELSE Take(stream, s.k)]

\* the answer to a posts request: the posts asked for, or a body that has no
\* post_stream
PostsBody(p, v) ==
    [kind |-> "posts", has_stream |-> (v = "full"),
     posts |-> IF v = "full" THEN p.post_ids ELSE <<>>]

SearchBody(n) == [kind |-> "search", topics |-> [j \in 1..n |-> [id |-> 900 + j]]]

Bodies(p) ==
    CASE p.kind = "categories" -> {CategoriesBody}
      [] p.kind = "c" ->
            {ListingBody(p, n, m) : n \in srv.lens,
                m \in IF p.page + 1 < srv.pages THEN BOOLEAN ELSE {FALSE}}
      [] p.kind = "t" -> {TopicBody(p.id, s) : s \in srv.streams}
      [] p.kind = "posts" -> {PostsBody(p, v) : v \in srv.posts}
      [] p.kind = "search" -> {SearchBody(n) : n \in srv.lens}

----------------------------------------------------------------------------
(* fetch_json(path): one action is one iteration of `for attempt in        *)
(* range(3)`, by what the server answers.  attempt is the index of the     *)
(* iteration about to run; after the loop it is the number of iterations.  *)

\* the call itself: the frame starts at the top of the loop
FetchCall(p) ==
    /\ fjPc' = "try"
    /\ fjPath' = p
    /\ attempt' = 0
    /\ fjResult' = None
    /\ outs' = <<>>

\* mutant: the wait grows by 2 with each attempt
BackoffLinear(a) == 2 * (a + 2)

\* wait = 2 ** (attempt + 2)
Backoff(a) == 2 ^ (a + 2)

\* mutant: the loop runs once more than range(3)
AfterContinueFour(a) == IF a + 1 < Attempts + 1 THEN "try" ELSE "ret"

\* `continue`: the next iteration, or past the loop to `return None`
AfterContinue(a) == IF a + 1 < Attempts THEN "try" ELSE "ret"

\* mutant: a network error is retried on every attempt
RetriesUrlErrorAlways(a) == a < Attempts

\* if attempt < 2
RetriesUrlError(a) == a < LastRetry

\* mutant: a response that was read and decoded does not end the loop
FetchOkRetried ==
    /\ fjPc = "try"
    /\ \E body \in Bodies(fjPath) :
        /\ fjResult' = body
        /\ fjPc' = AfterContinue(attempt)
    /\ attempt' = attempt + 1
    /\ log' = Append(log, ReqEvent(fjPath))
    /\ outs' = Append(outs, "ok")
    /\ UNCHANGED <<cvVars, srv, faults, fjPath, ctVars, tpVars, mainVars>>

\* the response is read and decoded: return json.loads(...)
FetchOk ==
    /\ fjPc = "try"
    /\ \E body \in Bodies(fjPath) :
        /\ fjResult' = body
        /\ fjPc' = "ret"
    /\ log' = Append(log, ReqEvent(fjPath))
    /\ outs' = Append(outs, "ok")
    /\ UNCHANGED <<cvVars, srv, faults, fjPath, attempt, ctVars, tpVars, mainVars>>

\* HTTPError with code 429: sleep, continue
Fetch429 ==
    /\ fjPc = "try"
    /\ faults < srv.faults
    /\ faults' = faults + 1
    /\ log' = log \o <<ReqEvent(fjPath), SleepEvent(Backoff(attempt))>>
    /\ attempt' = attempt + 1
    /\ fjPc' = AfterContinue(attempt)
    /\ fjResult' = None
    /\ outs' = Append(outs, "429")
    /\ UNCHANGED <<cvVars, srv, fjPath, ctVars, tpVars, mainVars>>

\* mutant: every HTTPError is handled as a 429
FetchHTTPErrorRetried ==
    /\ fjPc = "try"
    /\ faults < srv.faults
    /\ faults' = faults + 1
    /\ log' = log \o <<ReqEvent(fjPath), SleepEvent(Backoff(attempt))>>
    /\ attempt' = attempt + 1
    /\ fjPc' = AfterContinue(attempt)
    /\ fjResult' = None
    /\ outs' = Append(outs, "http")
    /\ UNCHANGED <<cvVars, srv, fjPath, ctVars, tpVars, mainVars>>

\* HTTPError with another code: raise
FetchHTTPError ==
    /\ fjPc = "try"
    /\ faults < srv.faults
    /\ faults' = faults + 1
    /\ log' = Append(log, ReqEvent(fjPath))
    /\ fjPc' = "raise"
    /\ fjResult' = [kind |-> "exc", type |-> "HTTPError"]
    /\ outs' = Append(outs, "http")
    /\ UNCHANGED <<cvVars, srv, fjPath, attempt, ctVars, tpVars, mainVars>>

\* URLError: sleep 2 and continue on the first two attempts, else raise
FetchURLError ==
    /\ fjPc = "try"
    /\ faults < srv.faults
    /\ faults' = faults + 1
    /\ IF RetriesUrlError(attempt)
       THEN /\ log' = log \o <<ReqEvent(fjPath), SleepEvent(UrlErrorDelay)>>
            /\ attempt' = attempt + 1
            /\ fjPc' = AfterContinue(attempt)
            /\ fjResult' = None
       ELSE /\ log' = Append(log, ReqEvent(fjPath))
            /\ attempt' = attempt
            /\ fjPc' = "raise"
            /\ fjResult' = [kind |-> "exc", type |-> "URLError"]
    /\ outs' = Append(outs, "url")
    /\ UNCHANGED <<cvVars, srv, fjPath, ctVars, tpVars, mainVars>>

\* frames that are not running
CtIdle ==
    /\ ctPc = "idle" /\ ctCat = [slug |-> "", id |-> 0] /\ limit = 0
    /\ topics = <<>> /\ page = 0 /\ ctResult = <<>> /\ fetched = <<>>
TpIdle ==
    /\ tpPc = "idle" /\ tpId = 0 /\ data = None /\ loaded_ids = {} /\ missing = <<>>
    /\ tpResult = None /\ mores = <<>>
FjIdle ==
    /\ fjPc = "idle" /\ fjPath = CategoriesPath /\ attempt = 0 /\ fjResult = None
    /\ outs = <<>>
MainIdle ==
    /\ mainPc = "idle" /\ args = [mode |-> "none"] /\ cats = <<>> /\ sel = <<>>
    /\ ci = 0 /\ mainTopics = <<>> /\ ti = 0 /\ exitStatus = 0
    /\ listed = <<>> /\ fulls = <<>>

----------------------------------------------------------------------------
(* fetch_category_topics(category_slug, category_id, limit).  limit = 0    *)
(* stands for both None and 0, which `if limit` does not tell apart.       *)

\* mutant: the limit is never looked at
LimitReachedNever(ts, lim) == FALSE

\* mutant: the limit counts as reached only once it is exceeded
LimitReachedLate(ts, lim) == lim # 0 /\ Len(ts) > lim

\* if limit and len(topics) >= limit
LimitReached(ts, lim) == lim # 0 /\ Len(ts) >= lim

\* mutant: the last batch is kept whole
TruncatedNot(ts, lim) == ts

\* topics = topics[:limit]
Truncated(ts, lim) == Take(ts, lim)

\* data = fetch_json(f"/c/{category_slug}/{category_id}.json?page={page}")
CatPage ==
    /\ ctPc = "loop"
    /\ FetchCall(ListingPath(ctCat, page))
    /\ log' = Append(log, CallEvent(ListingPath(ctCat, page)))
    /\ ctPc' = "wait"
    /\ UNCHANGED <<cvVars, srv, faults, ctCat, limit, topics, page, ctResult, fetched,
                   tpVars, mainVars>>

\* mutant: the next page is asked for without a delay
CatGotNoDelay ==
    /\ ctPc = "wait"
    /\ fjPc = "ret"
    /\ fjPc' = "idle"
    /\ fetched' = Append(fetched, fjResult)
    /\ LET batch == IF Truthy(fjResult) THEN fjResult.topics ELSE <<>>
           extended == topics \o batch
       IN  IF ~Truthy(fjResult) \/ batch = <<>>
           THEN /\ ctPc' = "done"
                /\ ctResult' = topics
                /\ UNCHANGED <<topics, page>>
           ELSE IF LimitReached(extended, limit)
           THEN /\ topics' = Truncated(extended, limit)
                /\ ctPc' = "done"
                /\ ctResult' = Truncated(extended, limit)
                /\ UNCHANGED page
           ELSE IF ~fjResult.more
           THEN /\ topics' = extended
                /\ ctPc' = "done"
                /\ ctResult' = extended
                /\ UNCHANGED page
           ELSE /\ topics' = extended
                /\ page' = page + 1
                /\ ctPc' = "loop"
                /\ UNCHANGED ctResult
    /\ UNCHANGED <<cvVars, srv, log, faults, fjPath, attempt, fjResult, outs, ctCat,
                   limit, tpVars, mainVars>>

\* the rest of the loop body, from `if not data` on; a break goes on to
\* `return topics`
CatGot ==
    /\ ctPc = "wait"
    /\ fjPc = "ret"
    /\ fjPc' = "idle"
    /\ fetched' = Append(fetched, fjResult)
    /\ LET batch == IF Truthy(fjResult) THEN fjResult.topics ELSE <<>>
           extended == topics \o batch
       IN  IF ~Truthy(fjResult) \/ batch = <<>>
           THEN /\ ctPc' = "done"
                /\ ctResult' = topics
                /\ UNCHANGED <<log, topics, page>>
           ELSE IF LimitReached(extended, limit)
           THEN /\ topics' = Truncated(extended, limit)
                /\ ctPc' = "done"
                /\ ctResult' = Truncated(extended, limit)
                /\ UNCHANGED <<log, page>>
           ELSE IF ~fjResult.more
           THEN /\ topics' = extended
                /\ ctPc' = "done"
                /\ ctResult' = extended
                /\ UNCHANGED <<log, page>>
           ELSE /\ topics' = extended
                /\ page' = page + 1
                /\ log' = Append(log, SleepEvent(REQUEST_DELAY))
                /\ ctPc' = "loop"
                /\ UNCHANGED ctResult
    /\ UNCHANGED <<cvVars, srv, faults, fjPath, attempt, fjResult, outs, ctCat, limit,
                   tpVars, mainVars>>

\* an exception of fetch_json is not caught: it leaves the function too
CatRaise ==
    /\ ctPc = "wait"
    /\ fjPc = "raise"
    /\ ctPc' = "raised"
    /\ UNCHANGED <<cvVars, srv, log, faults, fjVars, ctCat, limit, topics, page,
                   ctResult, fetched, tpVars, mainVars>>

----------------------------------------------------------------------------
(* fetch_topic(topic_id).                                                  *)

\* missing = [pid for pid in stream_ids if pid not in loaded_ids]
Missing(stream_ids, loaded) == SelectSeq(stream_ids, LAMBDA pid : pid \notin loaded)

\* chunk = missing[:20]
Chunk(m) == Take(m, ChunkSize)

\* mutant: the slice that is kept starts one id late
RestSkipsOne(m) == Drop(m, ChunkSize + 1)

\* missing = missing[20:]
Rest(m) == Drop(m, ChunkSize)

\* data = fetch_json(f"/t/{topic_id}.json")
TopicStart ==
    /\ tpPc = "start"
    /\ FetchCall(TopicPath(tpId))
    /\ log' = Append(log, CallEvent(TopicPath(tpId)))
    /\ tpPc' = "first"
    /\ UNCHANGED <<cvVars, srv, faults, tpId, data, loaded_ids, missing, tpResult,
                   mores, ctVars, mainVars>>

\* mutant: the delay is taken before the test of the first page
TopicFirstDelayAlways ==
    /\ tpPc = "first"
    /\ fjPc = "ret"
    /\ fjPc' = "idle"
    /\ log' = Append(log, SleepEvent(REQUEST_DELAY))
    /\ IF ~Truthy(fjResult)
       THEN /\ tpResult' = None
            /\ tpPc' = "done"
            /\ UNCHANGED <<data, loaded_ids, missing>>
       ELSE /\ data' = fjResult
            /\ loaded_ids' = {fjResult.posts[i] : i \in 1..Len(fjResult.posts)}
            /\ missing' = Missing(fjResult.stream,
                              {fjResult.posts[i] : i \in 1..Len(fjResult.posts)})
            /\ tpPc' = "loop"
            /\ UNCHANGED tpResult
    /\ UNCHANGED <<cvVars, srv, faults, fjPath, attempt, fjResult, outs, tpId,
                   mores, ctVars, mainVars>>

\* the first page is back: return None without it; else sleep and work out
\* which posts are missing
TopicFirst ==
    /\ tpPc = "first"
    /\ fjPc = "ret"
    /\ fjPc' = "idle"
    /\ IF ~Truthy(fjResult)
       THEN /\ tpResult' = None
            /\ tpPc' = "done"
            /\ UNCHANGED <<log, data, loaded_ids, missing>>
       ELSE /\ data' = fjResult
            /\ log' = Append(log, SleepEvent(REQUEST_DELAY))
            /\ loaded_ids' = {fjResult.posts[i] : i \in 1..Len(fjResult.posts)}
            /\ missing' = Missing(fjResult.stream,
                              {fjResult.posts[i] : i \in 1..Len(fjResult.posts)})
            /\ tpPc' = "loop"
            /\ UNCHANGED tpResult
    /\ UNCHANGED <<cvVars, srv, faults, fjPath, attempt, fjResult, outs, tpId,
                   mores, ctVars, mainVars>>

\* while missing: take a chunk and fetch it
TopicBatch ==
    /\ tpPc = "loop"
    /\ missing # <<>>
    /\ missing' = Rest(missing)
    /\ FetchCall(PostsPath(tpId, Chunk(missing)))
    /\ log' = Append(log, CallEvent(PostsPath(tpId, Chunk(missing))))
    /\ tpPc' = "more"
    /\ UNCHANGED <<cvVars, srv, faults, tpId, data, loaded_ids, tpResult, mores,
                   ctVars, mainVars>>

\* mutant: a chunk that brought no posts ends the loop
TopicMoreStopsOnFailure ==
    /\ tpPc = "more"
    /\ fjPc = "ret"
    /\ fjPc' = "idle"
    /\ data' = IF Truthy(fjResult) /\ fjResult.has_stream
               THEN [data EXCEPT !.posts = @ \o fjResult.posts]
               ELSE data
    /\ missing' = IF Truthy(fjResult) /\ fjResult.has_stream THEN missing ELSE <<>>
    /\ mores' = Append(mores, fjResult)
    /\ log' = Append(log, SleepEvent(REQUEST_DELAY))
    /\ tpPc' = "loop"
    /\ UNCHANGED <<cvVars, srv, faults, fjPath, attempt, fjResult, outs, tpId,
                   loaded_ids, tpResult, ctVars, mainVars>>

\* the chunk is back: its posts are appended when it has a post stream; sleep
TopicMore ==
    /\ tpPc = "more"
    /\ fjPc = "ret"
    /\ fjPc' = "idle"
    /\ data' = IF Truthy(fjResult) /\ fjResult.has_stream
               THEN [data EXCEPT !.posts = @ \o fjResult.posts]
               ELSE data
    /\ mores' = Append(mores, fjResult)
    /\ log' = Append(log, SleepEvent(REQUEST_DELAY))
    /\ tpPc' = "loop"
    /\ UNCHANGED <<cvVars, srv, faults, fjPath, attempt, fjResult, outs, tpId,
                   loaded_ids, missing, tpResult, ctVars, mainVars>>

\* return data
TopicReturn ==
    /\ tpPc = "loop"
    /\ missing = <<>>
    /\ tpResult' = data
    /\ tpPc' = "done"
    /\ UNCHANGED <<cvVars, srv, log, faults, fjVars, tpId, data, loaded_ids, missing,
                   mores, ctVars, mainVars>>

\* an exception of fetch_json is not caught: it leaves fetch_topic too
TopicRaise ==
    /\ tpPc \in {"first", "more"}
    /\ fjPc = "raise"
    /\ tpPc' = "raised"
    /\ UNCHANGED <<cvVars, srv, log, faults, fjVars, tpId, data, loaded_ids, missing,
                   tpResult, mores, ctVars, mainVars>>

----------------------------------------------------------------------------
(* get_categories, search_topics, save_topic and main.  args.category = "" *)
(* and args.limit = 0 stand for the options not given (None), which the    *)
(* code's truth tests do not tell apart from "" and 0.  Progress messages  *)
(* are left out; the message of the unknown category is an event.          *)

\* the loop of get_categories: each category, then its subcategories
RECURSIVE FlattenCats(_)
FlattenCats(cs) ==
    IF cs = <<>> THEN <<>>
    ELSE LET cat == Head(cs)
         IN  <<[id |-> cat.id, slug |-> cat.slug]>>
             \o [i \in 1..Len(cat.subs) |->
                    [id |-> cat.subs[i].id, slug |-> cat.subs[i].slug,
                     parent_slug |-> cat.slug]]
             \o FlattenCats(Tail(cs))

\* mutant: the categories come out in the reverse order
GetCategoriesReversed(d) ==
    IF ~Truthy(d) THEN <<>>
    ELSE LET cs == FlattenCats(d.categories)
         IN  [i \in 1..Len(cs) |-> cs[Len(cs) + 1 - i]]

\* get_categories, given what fetch_json("/categories.json") returned
GetCategories(d) == IF ~Truthy(d) THEN <<>> ELSE FlattenCats(d.categories)

\* search_topics, given what fetch_json returned
SearchTopics(d, lim) ==
    IF ~Truthy(d) THEN <<>>
    ELSE IF lim # 0 THEN Take(d.topics, lim) ELSE d.topics

\* cats = [c for c in cats if c["slug"] == args.category]
Selected(cs, slug) == SelectSeq(cs, LAMBDA c : c.slug = slug)

\* mutant: an empty selection is not reported
NotFoundIgnored(cs) == FALSE

\* if not cats
NotFound(cs) == cs = <<>>

\* topic_id = topic_data.get("id", "unknown")
TopicFileId(topic_data) ==
    IF "id" \in DOMAIN topic_data THEN topic_data.id ELSE UnknownId

\* save_topic(category_slug, topic_data, out): what it does to the disk
SaveTopic(slug, topic_data) ==
    <<MkdirEvent(slug), WriteEvent(slug, TopicFileId(topic_data))>>

\* mutant: the topic is saved whatever fetch_topic returned
SavedForAlways(slug, full) == SaveTopic(slug, full)

\* if full: save_topic(slug, full, out)
SavedFor(slug, full) == IF Truthy(full) THEN SaveTopic(slug, full) ELSE <<>>

\* the directory main saves the current topics under
CurSlug == IF args.mode = "search" THEN "search" ELSE sel[ci].slug

\* a call of fetch_category_topics: a fresh frame
CatCall(cat, lim) ==
    /\ ctPc' = "loop" /\ ctCat' = cat /\ limit' = lim
    /\ topics' = <<>> /\ page' = 0 /\ ctResult' = <<>> /\ fetched' = <<>>

\* a call of fetch_topic: a fresh frame
TopicCall(id) ==
    /\ tpPc' = "start" /\ tpId' = id /\ data' = None /\ loaded_ids' = {}
    /\ missing' = <<>> /\ tpResult' = None /\ mores' = <<>>

\* main up to its first fetch: the categories, or the search
MainStart ==
    /\ mainPc = "start"
    /\ IF args.mode = "search"
       THEN /\ FetchCall(SearchPath(args.search))
            /\ log' = Append(log, CallEvent(SearchPath(args.search)))
            /\ mainPc' = "search"
       ELSE /\ FetchCall(CategoriesPath)
            /\ log' = Append(log, CallEvent(CategoriesPath))
            /\ mainPc' = "cats"
    /\ UNCHANGED <<cvVars, srv, faults, args, cats, sel, ci, mainTopics, ti, exitStatus,
                   listed, fulls, ctVars, tpVars>>

\* get_categories has its data: list and return, or select the categories,
\* exit with status 1 when a slug was given and none has it, and go on to
\* the loop over them
MainCategories ==
    /\ mainPc = "cats"
    /\ fjPc = "ret"
    /\ fjPc' = "idle"
    /\ cats' = GetCategories(fjResult)
    /\ IF args.mode = "list"
       THEN /\ mainPc' = "done"
            /\ UNCHANGED <<log, sel, ci, exitStatus>>
       ELSE LET chosen == IF args.category # ""
                          THEN Selected(GetCategories(fjResult), args.category)
                          ELSE GetCategories(fjResult)
            IN  /\ sel' = chosen
                /\ IF args.category # "" /\ NotFound(chosen)
                   THEN /\ log' = Append(log, PrintEvent("not found"))
                        /\ exitStatus' = 1
                        /\ mainPc' = "exit"
                        /\ UNCHANGED ci
                   ELSE /\ ci' = 1
                        /\ mainPc' = "cat"
                        /\ UNCHANGED <<log, exitStatus>>
    /\ UNCHANGED <<cvVars, srv, faults, fjPath, attempt, fjResult, outs, args,
                   mainTopics, ti, listed, fulls, ctVars, tpVars>>

\* for cat in cats: the listing of the next category, or the end of main
MainCategory ==
    /\ mainPc = "cat"
    /\ IF ci > Len(sel)
       THEN /\ mainPc' = "done"
            /\ UNCHANGED ctVars
       ELSE /\ CatCall(sel[ci], args.limit)
            /\ mainPc' = "listing"
    /\ UNCHANGED <<cvVars, srv, log, faults, fjVars, args, cats, sel, ci, mainTopics,
                   ti, exitStatus, listed, fulls, tpVars>>

\* the listing is back: with --topics-only it is saved and the next category
\* follows, else the loop over its topics starts
MainListing ==
    /\ mainPc = "listing"
    /\ ctPc = "done"
    /\ ctPc' = "idle"
    /\ mainTopics' = ctResult
    /\ listed' = Append(listed, [slug |-> CurSlug, topics |-> ctResult])
    /\ IF args.topics_only
       THEN /\ log' = log \o <<MkdirEvent(CurSlug), ListingEvent(CurSlug)>>
            /\ ci' = ci + 1
            /\ mainPc' = "cat"
            /\ UNCHANGED ti
       ELSE /\ ti' = 1
            /\ mainPc' = "topic"
            /\ UNCHANGED <<log, ci>>
    /\ UNCHANGED <<cvVars, srv, faults, fjVars, args, cats, sel, exitStatus, fulls,
                   ctCat, limit, topics, page, ctResult, fetched, tpVars>>

\* search_topics has its data: the directory is made and the loop over the
\* topics found starts
MainSearch ==
    /\ mainPc = "search"
    /\ fjPc = "ret"
    /\ fjPc' = "idle"
    /\ LET found == SearchTopics(fjResult,
                        IF args.limit # 0 THEN args.limit ELSE DefaultSearchLimit)
       IN  /\ mainTopics' = found
           /\ listed' = Append(listed, [slug |-> "search", topics |-> found])
    /\ log' = Append(log, MkdirEvent("search"))
    /\ ti' = 1
    /\ mainPc' = "topic"
    /\ UNCHANGED <<cvVars, srv, faults, fjPath, attempt, fjResult, outs, args, cats,
                   sel, ci, exitStatus, fulls, ctVars, tpVars>>

\* for t in topics: past the last topic the loop ends; a search listing with
\* --topics-only is saved as it is; else the topic is fetched
MainTopic ==
    /\ mainPc = "topic"
    /\ IF ti > Len(mainTopics)
       THEN /\ IF args.mode = "search"
               THEN mainPc' = "done" /\ UNCHANGED ci
               ELSE mainPc' = "cat" /\ ci' = ci + 1
            /\ UNCHANGED <<log, ti, tpVars>>
       ELSE IF args.topics_only
       THEN /\ log' = log \o SaveTopic("search", mainTopics[ti])
            /\ ti' = ti + 1
            /\ UNCHANGED <<mainPc, ci, tpVars>>
       ELSE /\ TopicCall(mainTopics[ti].id)
            /\ mainPc' = "full"
            /\ UNCHANGED <<log, ci, ti>>
    /\ UNCHANGED <<cvVars, srv, faults, fjVars, args, cats, sel, mainTopics, exitStatus,
                   listed, fulls, ctVars>>

\* full = fetch_topic(...) is back: if full, it is saved; the next topic
MainSave ==
    /\ mainPc = "full"
    /\ tpPc = "done"
    /\ tpPc' = "idle"
    /\ fulls' = Append(fulls, [slug |-> CurSlug, id |-> mainTopics[ti].id,
                               full |-> tpResult])
    /\ log' = log \o SavedFor(CurSlug, tpResult)
    /\ ti' = ti + 1
    /\ mainPc' = "topic"
    /\ UNCHANGED <<cvVars, srv, faults, fjVars, args, cats, sel, ci, mainTopics,
                   exitStatus, listed, ctVars, tpId, data, loaded_ids, missing,
                   tpResult, mores>>

\* an exception that reaches main ends the program with a traceback
MainRaise ==
    /\ \/ mainPc \in {"cats", "search"} /\ fjPc = "raise"
       \/ mainPc = "listing" /\ ctPc = "raised"
       \/ mainPc = "full" /\ tpPc = "raised"
    /\ mainPc' = "raised"
    /\ exitStatus' = 1
    /\ UNCHANGED <<cvVars, srv, log, faults, fjVars, args, cats, sel, ci, mainTopics,
                   ti, listed, fulls, ctVars, tpVars>>

----------------------------------------------------------------------------
(* convert_dataset.py: pad_hex32, clean_hex and the transaction fields of  *)
(* convert.  A string is the sequence of its characters.                   *)

\* n copies of the character c
Repeat(c, n) == [i \in 1..n |-> c]

\* str.removeprefix(prefix)
RemovePrefix(v, prefix) ==
    IF Len(v) >= Len(prefix) /\ SubSeq(v, 1, Len(prefix)) = prefix
    THEN Drop(v, Len(prefix))
    ELSE v

\* str.zfill(width): zeros go in front, after a leading sign if there is one
ZFill(v, width) ==
    IF Len(v) >= width THEN v
    ELSE IF v # <<>> /\ Head(v) \in {"+", "-"}
    THEN <<Head(v)>> \o Repeat("0", width - Len(v)) \o Tail(v)
    ELSE Repeat("0", width - Len(v)) \o v

\* str.lstrip("0")
RECURSIVE LStripZeros(_)
LStripZeros(v) ==
    IF v # <<>> /\ Head(v) = "0" THEN LStripZeros(Tail(v)) ELSE v

\* mutant: only the lower-case prefix is taken off
PadHex32LowerOnly(val) ==
    <<"0", "x">> \o ZFill(RemovePrefix(val, <<"0", "x">>), PadWidth)

\* pad_hex32(val)
PadHex32(val) ==
    LET v == RemovePrefix(RemovePrefix(val, <<"0", "x">>), <<"0", "X">>)
    IN  <<"0", "x">> \o ZFill(v, PadWidth)

\* mutant: a value that is all zeros loses every digit
CleanHexNoZero(val) ==
    IF val = <<>> \/ val \in {<<"0", "x">>, <<"0", "x", "0">>, <<"0", "x", "0", "0">>}
    THEN <<"0", "x", "0">>
    ELSE <<"0", "x">>
         \o LStripZeros(RemovePrefix(RemovePrefix(val, <<"0", "x">>), <<"0", "X">>))

\* clean_hex(val)
CleanHex(val) ==
    IF val = <<>> \/ val \in {<<"0", "x">>, <<"0", "x", "0">>, <<"0", "x", "0", "0">>}
    THEN <<"0", "x", "0">>
    ELSE LET v == LStripZeros(
                      RemovePrefix(RemovePrefix(val, <<"0", "x">>), <<"0", "X">>))
         IN  IF v = <<>> THEN <<"0", "x", "0">> ELSE <<"0", "x">> \o v

\* tx.get(key, default)
Get(tx, key, default) == IF key \in DOMAIN tx THEN tx[key] ELSE default

\* the t8n_tx that convert builds from one source transaction
T8nTx(tx) ==
    [input |-> Get(tx, "data", <<"0", "x">>),
     gas |-> CleanHex(tx.gasLimit),
     nonce |-> CleanHex(tx.nonce),
     to |-> tx.to,
     value |-> CleanHex(Get(tx, "value", <<"0", "x", "0">>)),
     secretKey |-> tx.secretKey,
     v |-> <<"0", "x", "0">>,
     r |-> <<"0", "x", "0">>,
     s |-> <<"0", "x", "0">>,
     gasPrice |-> CleanHex(Get(tx, "gasPrice", <<"0", "x", "0">>))]

\* the string of a hex input: its prefix, then its digits
Str(h) == h.pre \o h.digits

\* pad_hex32 is called on a storage key or value
PadCall ==
    /\ hexPc = "pad"
    /\ hexOut' = PadHex32(Str(hexIn))
    /\ hexPc' = "padded"
    /\ UNCHANGED <<hexIn, hexAgain, convVars, srv, log, faults, fjVars, ctVars,
                   tpVars, mainVars>>

\* pad_hex32 is called on what it returned
PadAgain ==
    /\ hexPc = "padded"
    /\ hexAgain' = PadHex32(hexOut)
    /\ hexPc' = "repadded"
    /\ UNCHANGED <<hexIn, hexOut, convVars, srv, log, faults, fjVars, ctVars,
                   tpVars, mainVars>>

\* clean_hex is called on a numeric field
CleanCall ==
    /\ hexPc = "clean"
    /\ hexOut' = CleanHex(Str(hexIn))
    /\ hexPc' = "cleaned"
    /\ UNCHANGED <<hexIn, hexAgain, convVars, srv, log, faults, fjVars, ctVars,
                   tpVars, mainVars>>

\* one pass of `for tx in txs_src`
TxCall ==
    /\ hexPc = "tx"
    /\ hexOut' = T8nTx([k \in DOMAIN hexIn |->
                          IF k \in {"gasLimit", "nonce", "value", "gasPrice"}
                          THEN Str(hexIn[k]) ELSE hexIn[k]])
    /\ hexPc' = "converted"
    /\ UNCHANGED <<hexIn, hexAgain, convVars, srv, log, faults, fjVars, ctVars,
                   tpVars, mainVars>>

----------------------------------------------------------------------------
(* convert(input_path, output_dir), from `test = data[test_name]` on.  A   *)
(* JSON object is a function on its keys; the storage of an account is the *)
(* sequence of its key/value pairs in the order of the file.               *)

\* ("", "0x", "0x0", "0x00"): the literals convert takes for zero
ZeroLiterals == {<<>>, <<"0", "x">>, <<"0", "x", "0">>, <<"0", "x", "0", "0">>}

\* ("", "0x"): the literals convert takes for no code
EmptyCode == {<<>>, <<"0", "x">>}

\* d.get(key) is truthy: the key is there and its value is not empty
Has(d, key) == key \in DOMAIN d /\ d[key] # <<>>

\* {pad_hex32(k): pad_hex32(v) for k, v in acct["storage"].items()}: a later
\* pair replaces an earlier one whose padded key is the same
RECURSIVE PadStorage(_)
PadStorage(st) ==
    IF st = <<>> THEN <<>>
    ELSE LET before == PadStorage(SubSeq(st, 1, Len(st) - 1))
             k == PadHex32(st[Len(st)][1])
             v == PadHex32(st[Len(st)][2])
         IN  [x \in DOMAIN before \cup {k} |-> IF x = k THEN v ELSE before[x]]

\* mutant: a nonce that is absent or zero is written as "0x0"
AllocEntryNonceDefault(acct) ==
    LET keys == {"balance", "nonce"}
                \cup (IF Has(acct, "code") /\ acct.code \notin EmptyCode
                      THEN {"code"} ELSE {})
                \cup (IF Has(acct, "storage") THEN {"storage"} ELSE {})
    IN  [k \in keys |->
            CASE k = "balance" ->
                    IF Has(acct, "balance") /\ acct.balance \notin ZeroLiterals
                    THEN acct.balance ELSE <<"0", "x", "0">>
              [] k = "nonce" ->
                    IF Has(acct, "nonce") /\ acct.nonce \notin ZeroLiterals
                    THEN acct.nonce ELSE <<"0", "x", "0">>
              [] k = "code" -> acct.code
              [] k = "storage" -> PadStorage(acct.storage)]

\* mutant: an account without code gets the empty code "0x"
AllocEntryCodeDefault(acct) ==
    LET keys == {"balance", "code"}
                \cup (IF Has(acct, "nonce") /\ acct.nonce \notin ZeroLiterals
                      THEN {"nonce"} ELSE {})
                \cup (IF Has(acct, "storage") THEN {"storage"} ELSE {})
    IN  [k \in keys |->
            CASE k = "balance" ->
                    IF Has(acct, "balance") /\ acct.balance \notin ZeroLiterals
                    THEN acct.balance ELSE <<"0", "x", "0">>
              [] k = "nonce" -> acct.nonce
              [] k = "code" ->
                    IF Has(acct, "code") /\ acct.code \notin EmptyCode
                    THEN acct.code ELSE <<"0", "x">>
              [] k = "storage" -> PadStorage(acct.storage)]

\* the entry that one pass of `for addr, acct in test["pre"].items()` builds
AllocEntry(acct) ==
    LET keys == {"balance"}
                \cup (IF Has(acct, "nonce") /\ acct.nonce \notin ZeroLiterals
                      THEN {"nonce"} ELSE {})
                \cup (IF Has(acct, "code") /\ acct.code \notin EmptyCode
                      THEN {"code"} ELSE {})
                \cup (IF Has(acct, "storage") THEN {"storage"} ELSE {})
    IN  [k \in keys |->
            CASE k = "balance" ->
                    IF Has(acct, "balance") /\ acct.balance \notin ZeroLiterals
                    THEN acct.balance ELSE <<"0", "x", "0">>
              [] k = "nonce" -> acct.nonce
              [] k = "code" -> acct.code
              [] k = "storage" -> PadStorage(acct.storage)]

\* the 32-byte zero that is the default of currentRandom
ZeroHash == <<"0", "x">> \o Repeat("0", 64)

\* the keys convert reads with env_src[...], in the order it reads them
EnvRequired ==
    <<"currentCoinbase", "currentGasLimit", "currentNumber", "currentTimestamp">>

\* the keys convert copies only when they are there and not empty
EnvOptional == {"currentBaseFee", "currentExcessBlobGas", "parentBlobGasUsed"}

\* the fields convert reads with tx[...], in the order it reads them
TxRequired == <<"gasLimit", "nonce", "to", "secretKey">>

\* the first of the keys that d lacks, "" when it has them all: the key of
\* the KeyError
FirstMissing(d, keys) ==
    LET lacking == {i \in 1..Len(keys) : keys[i] \notin DOMAIN d}
    IN  IF lacking = {} THEN ""
        ELSE keys[CHOOSE i \in lacking : \A j \in lacking : i <= j]

\* the first transaction that lacks a required field, 0 when none does
FirstBadTx(ts) ==
    LET bad == {i \in 1..Len(ts) : FirstMissing(ts[i], TxRequired) # ""}
    IN  IF bad = {} THEN 0 ELSE CHOOSE i \in bad : \A j \in bad : i <= j

\* the env that convert builds from env_src
T8nEnv(env_src) ==
    LET opt == {k \in EnvOptional : Has(env_src, k)}
        base == [currentCoinbase |-> env_src.currentCoinbase,
                 currentGasLimit |-> env_src.currentGasLimit,
                 currentNumber |-> env_src.currentNumber,
                 currentTimestamp |-> env_src.currentTimestamp,
                 currentRandom |-> Get(env_src, "currentRandom", ZeroHash),
                 currentDifficulty |-> <<"0", "x", "0">>,
                 parentBeaconBlockRoot |-> ZeroHash,
                 withdrawals |-> <<>>]
    IN  [k \in DOMAIN base \cup opt |-> IF k \in opt THEN env_src[k] ELSE base[k]]

\* lines 37-59: build alloc from test["pre"] and write alloc.json
ConvAlloc ==
    /\ cvPc = "alloc"
    /\ IF "pre" \notin DOMAIN test
       THEN /\ cvPc' = "raised"
            /\ cvErr' = "pre"
            /\ UNCHANGED <<alloc, written>>
       ELSE /\ alloc' = [addr \in DOMAIN test.pre |-> AllocEntry(test.pre[addr])]
            /\ written' = Append(written, "alloc.json")
            /\ cvPc' = "env"
            /\ UNCHANGED cvErr
    /\ UNCHANGED <<test, env, txs, hexVars, srv, log, faults, fjVars, ctVars,
                   tpVars, mainVars>>

\* mutant: env.json is opened for writing before env is built
ConvEnvEager ==
    /\ cvPc = "env"
    /\ written' = Append(written, "env.json")
    /\ IF "env" \notin DOMAIN test
       THEN /\ cvPc' = "raised"
            /\ cvErr' = "env"
            /\ UNCHANGED env
       ELSE IF FirstMissing(test.env, EnvRequired) # ""
       THEN /\ cvPc' = "raised"
            /\ cvErr' = FirstMissing(test.env, EnvRequired)
            /\ UNCHANGED env
       ELSE /\ env' = T8nEnv(test.env)
            /\ cvPc' = "txs"
            /\ UNCHANGED cvErr
    /\ UNCHANGED <<test, alloc, txs, hexVars, srv, log, faults, fjVars, ctVars,
                   tpVars, mainVars>>

\* lines 62-83: build env from test["env"] and write env.json
ConvEnv ==
    /\ cvPc = "env"
    /\ IF "env" \notin DOMAIN test
       THEN /\ cvPc' = "raised"
            /\ cvErr' = "env"
            /\ UNCHANGED <<env, written>>
       ELSE IF FirstMissing(test.env, EnvRequired) # ""
       THEN /\ cvPc' = "raised"
            /\ cvErr' = FirstMissing(test.env, EnvRequired)
            /\ UNCHANGED <<env, written>>
       ELSE /\ env' = T8nEnv(test.env)
            /\ written' = Append(written, "env.json")
            /\ cvPc' = "txs"
            /\ UNCHANGED cvErr
    /\ UNCHANGED <<test, alloc, txs, hexVars, srv, log, faults, fjVars, ctVars,
                   tpVars, mainVars>>

\* lines 89-109: build txs from test["transaction"] and write txs.json
ConvTxs ==
    /\ cvPc = "txs"
    /\ IF "transaction" \notin DOMAIN test
       THEN /\ cvPc' = "raised"
            /\ cvErr' = "transaction"
            /\ UNCHANGED <<txs, written>>
       ELSE IF FirstBadTx(test.transaction) # 0
       THEN /\ cvPc' = "raised"
            /\ cvErr' = FirstMissing(test.transaction[FirstBadTx(test.transaction)],
                                     TxRequired)
            /\ UNCHANGED <<txs, written>>
       ELSE /\ txs' = [i \in 1..Len(test.transaction) |-> T8nTx(test.transaction[i])]
            /\ written' = Append(written, "txs.json")
            /\ cvPc' = "done"
            /\ UNCHANGED cvErr
    /\ UNCHANGED <<test, alloc, env, hexVars, srv, log, faults, fjVars, ctVars,
                   tpVars, mainVars>>

FetchJsonStep == FetchOk \/ Fetch429 \/ FetchHTTPError \/ FetchURLError

HexIdle ==
    /\ hexPc = "idle" /\ hexIn = <<>> /\ hexOut = <<>> /\ hexAgain = <<>>
ConvIdle ==
    /\ cvPc = "idle" /\ test = <<>> /\ alloc = <<>> /\ env = <<>> /\ txs = <<>>
    /\ written = <<>> /\ cvErr = ""
CvIdle == HexIdle /\ ConvIdle

----------------------------------------------------------------------------
(* The server ranges.                                                      *)

\* stream lengths at the chunk boundaries, and 1 and 5 past each
StreamLens == {c * ChunkSize + d : c \in 0..MaxChunks, d \in {0, 1, 5}}

\* the posts loaded with the first page: none or a full page of 20, taken from
\* the head or from the tail of the stream
TopicShapes ==
    {s \in [n : StreamLens, k : {0, ChunkSize}, tail : BOOLEAN] :
        /\ s.k <= s.n
        /\ (s.k \in {0, s.n} => ~s.tail)}

\* a forum of two categories, the first with one subcategory
Forum ==
    <<[id |-> 1, slug |-> "eips", subs |-> <<[id |-> 3, slug |-> "core"]>>],
      [id |-> 2, slug |-> "ercs", subs |-> <<>>]>>

FullServer ==
    [cats |-> Forum, lens |-> 0..MaxBatch, pages |-> MaxPages,
     streams |-> TopicShapes, posts |-> {"full", "nostream"},
     faults |-> MaxFaults]

----------------------------------------------------------------------------
(* fetch_json called on its own.                                           *)

FetchPaths ==
    {CategoriesPath, ListingPath(Forum[1], 0), ListingPath(Forum[2], 1),
     TopicPath(7), PostsPath(7, <<104, 103>>), SearchPath("verkle")}

InitFetch ==
    /\ srv = FullServer
    /\ log = <<>>
    /\ faults = 0
    /\ fjPc = "try" /\ fjPath \in FetchPaths /\ attempt = 0 /\ fjResult = None
    /\ outs = <<>>
    /\ CtIdle /\ TpIdle /\ MainIdle /\ CvIdle

NextFetch == FetchOk \/ Fetch429 \/ FetchHTTPError \/ FetchURLError

SpecFetch == InitFetch /\ [][NextFetch]_vars

----------------------------------------------------------------------------
(* fetch_topic called on its own.                                          *)

InitTopic ==
    /\ srv = FullServer
    /\ log = <<>>
    /\ faults = 0
    /\ FjIdle /\ CtIdle /\ MainIdle /\ CvIdle
    /\ tpPc = "start" /\ tpId = 7 /\ data = None /\ loaded_ids = {}
    /\ missing = <<>> /\ tpResult = None /\ mores = <<>>

NextTopic ==
    \/ TopicStart \/ TopicFirst \/ TopicBatch \/ TopicMore \/ TopicReturn
    \/ TopicRaise
    \/ FetchJsonStep

SpecTopic == InitTopic /\ [][NextTopic]_vars

\* the id lists of the follow-up calls made so far, in order
PostCalls ==
    LET c == SelectSeq(log, LAMBDA e : e.ev = "call" /\ e.path.kind = "posts")
    IN  [i \in 1..Len(c) |-> c[i].path.post_ids]

RECURSIVE Flatten(_)
Flatten(ss) == IF ss = <<>> THEN <<>> ELSE Head(ss) \o Flatten(Tail(ss))

\* C4: once the first page is in, the follow-up calls made so far carry
\* consecutive slices of the missing list (the stream ids not pre-loaded, in
\* stream order): their id lists, followed by what is still to be asked for,
\* make up that list; each carries at most 20 ids and each but the last
\* exactly 20; when the call has returned the topic there were exactly
\* ceil(m/20) of them, none when m = 0.
C4_MissingInChunks ==
    tpPc \in {"loop", "more", "raised", "done"} /\ Truthy(data) =>
        LET M == Missing(data.stream, loaded_ids)
            m == Len(M)
        IN  /\ Flatten(PostCalls) \o missing = M
            /\ \A i \in 1..Len(PostCalls) :
                  /\ Len(PostCalls[i]) \in 1..20
                  /\ (i < Len(PostCalls) => Len(PostCalls[i]) = 20)
            /\ Cardinality({M[i] : i \in 1..m}) = m
            /\ (tpPc = "done" =>
                  /\ Len(PostCalls) = (m + 19) \div 20
                  /\ (m = 0 => PostCalls = <<>>))

\* 25 stream ids, 20 of them pre-loaded: one follow-up call, for the other 5
C4_Witness ==
    /\ tpPc = "done"
    /\ Truthy(tpResult)
    /\ Len(data.stream) = 25
    /\ Cardinality(loaded_ids) = 20
    /\ Len(PostCalls) = 1
    /\ Len(PostCalls[1]) = 5

----------------------------------------------------------------------------
(* fetch_category_topics called on its own.                                *)

InitCat ==
    /\ srv = FullServer
    /\ log = <<>>
    /\ faults = 0
    /\ FjIdle /\ TpIdle /\ MainIdle /\ CvIdle
    /\ ctPc = "loop" /\ ctCat = [slug |-> "eips", id |-> 1]
    /\ limit \in 0..MaxLimit
    /\ topics = <<>> /\ page = 0 /\ ctResult = <<>> /\ fetched = <<>>

NextCat == CatPage \/ CatGot \/ CatRaise \/ FetchJsonStep

SpecCat == InitCat /\ [][NextCat]_vars

\* the topic batch of a fetched page; a fetch that gave no data gave no topics
BatchOf(d) == IF Truthy(d) THEN d.topics ELSE <<>>

\* the batches of the first i pages fetched, one after the other
RECURSIVE Accumulated(_)
Accumulated(i) == IF i = 0 THEN <<>> ELSE Accumulated(i - 1) \o BatchOf(fetched[i])

PageCalls == SelectSeq(log, LAMBDA e : e.ev = "call" /\ e.path.kind = "c")

\* one of the three stop conditions holds of the i-th page fetched
StopsAt(i) ==
    \/ BatchOf(fetched[i]) = <<>>
    \/ limit > 0 /\ Len(Accumulated(i)) >= limit
    \/ ~fetched[i].more

\* C5: the call is over exactly when the page it fetched last has zero topics,
\* brings the accumulated count to the limit asked for, or carries no
\* more-pages signal, and no page before it did; then no page was requested
\* beyond it, no step is left, and the result is the topics accumulated, cut to
\* the limit (the empty list when the first page has zero topics).
C5_StopsAtFirstEndPage ==
    ctPc \in {"loop", "wait", "done"} =>
        /\ \A i \in 1..Len(fetched) :
              StopsAt(i) <=> (i = Len(fetched) /\ ctPc = "done")
        /\ (ctPc = "done" =>
              /\ fetched # <<>>
              /\ Len(PageCalls) = Len(fetched)
              /\ ~ ENABLED NextCat
              /\ ctResult = IF limit > 0
                            THEN Take(Accumulated(Len(fetched)), limit)
                            ELSE Accumulated(Len(fetched))
              /\ (BatchOf(fetched[1]) = <<>> => ctResult = <<>>))

\* a call that went through two pages and stopped at the third
C5_Witness ==
    /\ ctPc = "done"
    /\ Len(fetched) = 3
    /\ ~StopsAt(1) /\ ~StopsAt(2) /\ StopsAt(3)
    /\ Len(ctResult) >= 2

\* C6: with a positive limit L the result has at most L topics, is a prefix of
\* the fetched pages' batches taken in page order, and has exactly L topics
\* when those pages hold at least L.
C6_LimitTruncates ==
    (ctPc = "done" /\ limit > 0) =>
        LET all == Accumulated(Len(fetched))
        IN  /\ Len(ctResult) <= limit
            /\ Len(ctResult) <= Len(all)
            /\ ctResult = SubSeq(all, 1, Len(ctResult))
            /\ (Len(all) >= limit => Len(ctResult) = limit)

\* the last batch overshoots the limit and is cut
C6_Witness ==
    /\ ctPc = "done"
    /\ limit = 3
    /\ Len(Accumulated(Len(fetched))) = 4
    /\ Len(ctResult) = 3

----------------------------------------------------------------------------
(* main, for each command line.                                            *)

\* the command lines tried: --list-categories; --search with and without
\* --topics-only; all categories or one by slug, with and without
\* --topics-only, with and without --limit 1
ArgSets ==
    {[mode |-> "list"]}
    \cup {[mode |-> "search", search |-> "verkle", limit |-> l, topics_only |-> t] :
            l \in {0, 1}, t \in BOOLEAN}
    \cup {[mode |-> "category", category |-> c, limit |-> l, topics_only |-> t] :
            c \in {"", "eips", "core", "nope"}, l \in {0, 1}, t \in BOOLEAN}

\* the forum main runs against: one topic to a listing page, at most two pages
\* to a category, topics of 21 posts whose first page lacks the last one, and
\* as many failed responses as use up one call's attempts; when every category
\* is archived the forum is one category with its subcategory
MainServer(a) ==
    [cats |-> IF a.mode = "category" /\ a.category = "" THEN SubSeq(Forum, 1, 1)
              ELSE Forum,
     lens |-> {1}, pages |-> 2,
     streams |-> {[n |-> ChunkSize + 1, k |-> ChunkSize, tail |-> FALSE]},
     posts |-> {"full"}, faults |-> Attempts]

InitMain ==
    /\ args \in ArgSets
    /\ srv = MainServer(args)
    /\ log = <<>>
    /\ faults = 0
    /\ FjIdle /\ CtIdle /\ TpIdle /\ CvIdle
    /\ mainPc = "start"
    /\ cats = <<>> /\ sel = <<>> /\ ci = 0 /\ mainTopics = <<>> /\ ti = 0
    /\ exitStatus = 0 /\ listed = <<>> /\ fulls = <<>>

NextMain ==
    \/ MainStart \/ MainCategories \/ MainCategory \/ MainListing
    \/ MainSearch \/ MainTopic \/ MainSave \/ MainRaise
    \/ CatPage \/ CatGot \/ CatRaise
    \/ TopicStart \/ TopicFirst \/ TopicBatch \/ TopicMore \/ TopicReturn
    \/ TopicRaise
    \/ FetchJsonStep

SpecMain == InitMain /\ [][NextMain]_vars

----------------------------------------------------------------------------
(* Claims about main, checked under SpecMain.                              *)

\* C7: in category-fetch mode with a --category slug that no category of the
\* fetched list has, the program has printed the error and ended with exit
\* status 1 as soon as the list is in: the only call it made is the one for
\* the category list, it wrote no file and made no directory, and no step is
\* left.
C7_UnknownCategoryExits ==
    ( /\ args.mode = "category"
      /\ args.category # ""
      /\ mainPc \notin {"start", "cats", "raised"}
      /\ \A i \in 1..Len(cats) : cats[i].slug # args.category ) =>
        /\ mainPc = "exit"
        /\ exitStatus = 1
        /\ log[Len(log)] = PrintEvent("not found")
        /\ \A i \in 1..Len(log) :
              /\ log[i].ev \notin {"write", "listing", "mkdir"}
              /\ (log[i].ev \in {"call", "req"} => log[i].path = CategoriesPath)
        /\ ~ ENABLED NextMain

\* the list was fetched, has three categories, and none is "nope"
C7_Witness ==
    /\ args.mode = "category"
    /\ args.category = "nope"
    /\ Len(cats) = 3
    /\ mainPc = "exit"

\* the topics of the listings obtained so far, each with its directory
RECURSIVE PlanOf(_)
PlanOf(ls) ==
    IF ls = <<>> THEN <<>>
    ELSE LET l == Head(ls)
         IN  [i \in 1..Len(l.topics) |-> [slug |-> l.slug, id |-> l.topics[i].id]]
             \o PlanOf(Tail(ls))

\* the files that belong to the topics handled so far: one for each whose
\* fetch gave data
RECURSIVE FilesOf(_)
FilesOf(fs) ==
    IF fs = <<>> THEN <<>>
    ELSE (IF Truthy(Head(fs).full)
          THEN <<WriteEvent(Head(fs).slug, Head(fs).id)>> ELSE <<>>)
         \o FilesOf(Tail(fs))

\* C8: in search mode and in category mode (without --topics-only) the files
\* written are, in order, one <slug>/<topic-id>.json for each topic handled
\* whose fetch gave data and none for a topic whose fetch gave no data; the
\* topics are handled in listing order, and when main ends normally every
\* topic of every listing, and every selected category, has been handled.
C8_NoDataTopicSkipped ==
    (args.mode \in {"search", "category"} /\ ~args.topics_only) =>
        /\ Writes(log) = FilesOf(fulls)
        /\ Len(fulls) <= Len(PlanOf(listed))
        /\ \A i \in 1..Len(fulls) :
              /\ fulls[i].slug = PlanOf(listed)[i].slug
              /\ fulls[i].id = PlanOf(listed)[i].id
        /\ (mainPc = "done" =>
              /\ Len(fulls) = Len(PlanOf(listed))
              /\ (args.mode = "category" => Len(listed) = Len(sel)))

\* a topic whose fetch gave no data, then a topic of the next category saved
C8_Witness ==
    /\ mainPc = "done"
    /\ args.mode = "category"
    /\ \E i, j \in 1..Len(fulls) :
          /\ i < j
          /\ ~Truthy(fulls[i].full)
          /\ Truthy(fulls[j].full)
          /\ fulls[i].slug # fulls[j].slug
          /\ WriteEvent(fulls[j].slug, fulls[j].id) \in {log[k] : k \in 1..Len(log)}

----------------------------------------------------------------------------
(* The converter's functions called on hex strings.                        *)

HexDigit == {"0", "1", "a", "F"}
HexPrefix == {<<>>, <<"0", "x">>, <<"0", "X">>}

\* every digit string of at most n digits
RECURSIVE DigitStrings(_)
DigitStrings(n) ==
    IF n = 0 THEN {<<>>}
    ELSE DigitStrings(n - 1)
         \cup {<<d>> \o t : d \in HexDigit,
                            t \in {u \in DigitStrings(n - 1) : Len(u) = n - 1}}

\* short inputs: an optional prefix and up to MaxDigits digits
ShortHex == [pre : HexPrefix, digits : DigitStrings(MaxDigits)]

\* long inputs: one digit short of the pad width, at it and one past it
LongHex ==
    [pre : HexPrefix,
     digits : {h \o Repeat(f, w - Len(h)) :
                 h \in DigitStrings(1), f \in {"0", "F"},
                 w \in {PadWidth - 1, PadWidth, PadWidth + 1}}]

\* the numeric fields of a transaction
TxHex ==
    {h \in ShortHex : h.pre # <<"0", "X">> /\ Len(h.digits) <= 2
                      /\ \A i \in 1..Len(h.digits) : h.digits[i] \in {"0", "a"}}

\* source transactions: value and gasPrice may be absent, data too
TxInputs ==
    LET base == [gasLimit : {h \in TxHex : Len(h.digits) >= 1}, nonce : TxHex,
                 to : {<<"0", "x", "a">>}, secretKey : {<<"0", "x", "1">>}]
        With(S, k, V) ==
            S \cup {[x \in DOMAIN t \cup {k} |-> IF x = k THEN v ELSE t[x]] :
                        t \in S, v \in V}
    IN  With(With(With(base, "value", {h \in TxHex : Len(h.digits) <= 1}),
                  "gasPrice", {h \in TxHex : Len(h.digits) = 2}),
             "data", {<<"0", "x", "F">>})

InitHex ==
    /\ srv = FullServer
    /\ log = <<>>
    /\ faults = 0
    /\ FjIdle /\ CtIdle /\ TpIdle /\ MainIdle
    /\ \/ hexPc = "pad" /\ hexIn \in ShortHex \cup LongHex
       \/ hexPc = "clean" /\ hexIn \in ShortHex \cup LongHex
       \/ hexPc = "tx" /\ hexIn \in TxInputs
    /\ hexOut = <<>>
    /\ hexAgain = <<>>
    /\ ConvIdle

NextHex == PadCall \/ PadAgain \/ CleanCall \/ TxCall

SpecHex == InitHex /\ [][NextHex]_vars

\* the digits of d from its first non-zero digit on
Significant(d) ==
    LET nz == {i \in 1..Len(d) : d[i] # "0"}
    IN  IF nz = {} THEN <<>>
        ELSE SubSeq(d, CHOOSE i \in nz : \A j \in nz : i <= j, Len(d))

\* the form clean_hex is to give a hex string with digits d
Minimal(d) ==
    IF Significant(d) = <<>> THEN <<"0", "x", "0">>
    ELSE <<"0", "x">> \o Significant(d)

\* C9: clean_hex of a hex string (optional 0x/0X prefix, then digits, the empty
\* string included) is "0x0" when it has no non-zero digit and else "0x"
\* followed by its digits without the leading zeros; "0x00", "" and "0x" give
\* "0x0" and "0x0001a0" gives "0x1a0"; and the gas, nonce, value and gasPrice
\* of an output transaction are this form of the source fields (of "0x0" for
\* an absent value or gasPrice).
C9_CleanHexMinimal ==
    /\ hexPc = "cleaned" => hexOut = Minimal(hexIn.digits)
    /\ hexPc = "converted" =>
          /\ hexOut.gas = Minimal(hexIn.gasLimit.digits)
          /\ hexOut.nonce = Minimal(hexIn.nonce.digits)
          /\ hexOut.value = IF "value" \in DOMAIN hexIn
                            THEN Minimal(hexIn.value.digits)
                            ELSE <<"0", "x", "0">>
          /\ hexOut.gasPrice = IF "gasPrice" \in DOMAIN hexIn
                               THEN Minimal(hexIn.gasPrice.digits)
                               ELSE <<"0", "x", "0">>
    /\ CleanHex(<<"0", "x", "0", "0">>) = <<"0", "x", "0">>
    /\ CleanHex(<<>>) = <<"0", "x", "0">>
    /\ CleanHex(<<"0", "x">>) = <<"0", "x", "0">>
    /\ CleanHex(<<"0", "x", "0", "0", "0", "1", "a", "0">>) = <<"0", "x", "1", "a", "0">>

\* leading zeros were there and are gone: "0X00a0" gives "0xa0"
C9_Witness ==
    /\ hexPc = "cleaned"
    /\ hexIn = [pre |-> <<"0", "X">>, digits |-> <<"0", "0", "a", "0">>]
    /\ hexOut = <<"0", "x", "a", "0">>

\* C10: pad_hex32 of a hex string of at most 64 digits is "0x" followed by
\* exactly 64 digits, the input's digits behind the zeros that fill the width
\* (pad_hex32("0x1") is "0x", 63 zeros, "1"); and pad_hex32 of any result of
\* pad_hex32 is that result.
C10_PadHex32FixedWidth ==
    /\ (hexPc \in {"padded", "repadded"} /\ Len(hexIn.digits) <= 64) =>
          /\ Len(hexOut) = 66
          /\ hexOut = <<"0", "x">> \o Repeat("0", 64 - Len(hexIn.digits))
                          \o hexIn.digits
    /\ hexPc = "repadded" => hexAgain = hexOut
    /\ PadHex32(<<"0", "x", "1">>) = <<"0", "x">> \o Repeat("0", 63) \o <<"1">>

\* a short upper-case-prefixed input, padded and padded again
C10_Witness ==
    /\ hexPc = "repadded"
    /\ hexIn = [pre |-> <<"0", "X">>, digits |-> <<"1", "a">>]
    /\ Len(hexOut) = 66
    /\ hexAgain = hexOut

----------------------------------------------------------------------------
(* Claims about fetch_json, checked under SpecFetch, where the log holds   *)
(* the one call's requests and sleeps.                                     *)

AllOuts(S) == \A i \in 1..Len(outs) : outs[i] \in S

\* C1: when every response is HTTP 429, the call issues exactly 3 requests,
\* never a 4th, and then returns None: after n such responses n requests were
\* issued, n is at most 3, the call is still in its loop while n < 3 and has
\* returned None when n = 3.
C1_RateLimitedThrice ==
    AllOuts({"429"}) =>
        /\ Len(Requests(log)) = Len(outs)
        /\ Len(outs) <= 3
        /\ (Len(outs) < 3 => fjPc = "try")
        /\ (Len(outs) = 3 => fjPc = "ret" /\ fjResult = None)

C1_Witness ==
    /\ outs = <<"429", "429", "429">>
    /\ fjPc = "ret"
    /\ Len(Requests(log)) = 3

\* C2 as stated: three retryable failures, in any mix and order, end the call
\* with None returned and nothing raised.
C2_AsStated ==
    (Len(outs) = 3 /\ AllOuts({"429", "url"})) =>
        (fjPc = "ret" /\ fjResult = None)

\* C2, amended: after three retryable failures the call returns None when the
\* third is HTTP 429, and raises the URLError when the third is a network
\* error.
C2_ExhaustedRetries ==
    (Len(outs) = 3 /\ AllOuts({"429", "url"})) =>
        IF outs[3] = "429"
        THEN fjPc = "ret" /\ fjResult = None
        ELSE fjPc = "raise" /\ fjResult = [kind |-> "exc", type |-> "URLError"]

C2_Witness ==
    /\ outs = <<"url", "429", "429">>
    /\ fjPc = "ret"
    /\ fjResult = None

\* C3: an HTTP error that is not 429 propagates at once, whatever the attempt
\* index: the call has raised the HTTPError, the failed request is the last
\* thing the call did (no sleep follows it), and the call issued no request
\* beyond one per response.
C3_HttpErrorPropagates ==
    (outs # <<>> /\ outs[Len(outs)] = "http") =>
        /\ fjPc = "raise"
        /\ fjResult = [kind |-> "exc", type |-> "HTTPError"]
        /\ log[Len(log)] = ReqEvent(fjPath)
        /\ Len(Requests(log)) = Len(outs)
        /\ Len(Sleeps(log)) = Len(outs) - 1
        /\ ~ ENABLED NextFetch

C3_Witness ==
    /\ outs = <<"429", "url", "http">>
    /\ fjPc = "raise"

----------------------------------------------------------------------------
(* convert run on fixtures.                                                *)

\* the set S of objects, and each of them with key k set to a value of V
WithKey(S, k, V) ==
    S \cup {[x \in DOMAIN t \cup {k} |-> IF x = k THEN v ELSE t[x]] :
                t \in S, v \in V}

\* d without key k
Without(d, k) == [x \in DOMAIN d \ {k} |-> d[x]]

\* balances and nonces: the zero literals, and values that are not among them
AmountVals ==
    ZeroLiterals \cup {<<"0", "x", "1">>, <<"0", "x", "0", "1">>, <<"0", "X", "0">>}

CodeVals == EmptyCode \cup {<<"0", "x", "6", "0">>}

\* storage: empty, {"0x1": "0x2"}, and two keys that pad to the same key
StorageVals ==
    {<<>>,
     <<<<<<"0", "x", "1">>, <<"0", "x", "2">>>>>>,
     <<<<<<"0", "x", "1">>, <<"0", "x", "2">>>>,
       <<<<"0", "x", "0", "1">>, <<"0", "x", "3">>>>>>}

\* source accounts: every field may be absent
Accounts ==
    WithKey(WithKey(WithKey(WithKey({[x \in {} |-> <<>>]},
                                    "balance", AmountVals),
                            "nonce", AmountVals),
                    "code", CodeVals),
            "storage", StorageVals)

GoodAccount == [balance |-> <<"0", "x", "1">>, nonce |-> <<"0", "x", "1">>]

GoodEnv ==
    [currentCoinbase |-> <<"0", "x", "c">>, currentGasLimit |-> <<"0", "x", "f">>,
     currentNumber |-> <<"0", "x", "1">>, currentTimestamp |-> <<"0", "x", "2">>]

\* source envs: a required key may be absent, an optional one present or empty
EnvInputs ==
    {Without(GoodEnv, EnvRequired[i]) : i \in 1..Len(EnvRequired)}
    \cup {Without(Without(GoodEnv, EnvRequired[i]), EnvRequired[j]) :
            i, j \in 1..Len(EnvRequired)}
    \cup WithKey(WithKey(WithKey({GoodEnv},
                                 "currentBaseFee", {<<>>, <<"0", "x", "7">>}),
                         "currentRandom", {<<"0", "x", "9">>}),
                 "parentBlobGasUsed", {<<"0", "x", "0">>})

GoodTx ==
    [gasLimit |-> <<"0", "x", "0", "5">>, nonce |-> <<"0", "x", "0", "0">>,
     to |-> <<"0", "x", "a">>, secretKey |-> <<"0", "x", "1">>]

\* source transaction lists: none, one or two transactions, a required field
\* may be absent from the first or from the second
TxLists ==
    {<<>>, <<GoodTx>>, <<GoodTx, GoodTx>>}
    \cup {<<Without(GoodTx, TxRequired[i])>> : i \in 1..Len(TxRequired)}
    \cup {<<GoodTx, Without(GoodTx, TxRequired[i])>> : i \in 1..Len(TxRequired)}
    \cup {<<Without(GoodTx, TxRequired[i]), Without(GoodTx, TxRequired[j])>> :
            i, j \in 1..Len(TxRequired)}
    \cup {<<t>> : t \in WithKey(WithKey({GoodTx}, "value", {<<"0", "x", "0", "0">>}),
                                "data", {<<"0", "x", "F">>})}

\* the test entries convert is run on
Fixtures ==
    LET full == [pre |-> [a \in {"0xaa"} |-> GoodAccount], env |-> GoodEnv,
                 transaction |-> <<GoodTx>>]
    IN  {[full EXCEPT !.pre = [a \in {"0xaa"} |-> acct]] : acct \in Accounts}
        \cup {[full EXCEPT !.pre = [a \in {"0xaa", "0xbb"} |->
                                      IF a = "0xaa" THEN GoodAccount ELSE acct]] :
                acct \in {t \in Accounts : DOMAIN t \subseteq {"balance"}}}
        \cup {[full EXCEPT !.pre = [a \in {} |-> GoodAccount]]}
        \cup {[full EXCEPT !.env = e] : e \in EnvInputs}
        \cup {[full EXCEPT !.transaction = ts] : ts \in TxLists}
        \cup {Without(full, k) : k \in {"pre", "env", "transaction"}}
        \cup {Without(Without(full, "pre"), k) : k \in {"env", "transaction"}}
        \cup {Without([full EXCEPT !.env = e], "transaction") :
                e \in {Without(GoodEnv, "currentNumber")}}

InitConvert ==
    /\ srv = FullServer
    /\ log = <<>>
    /\ faults = 0
    /\ FjIdle /\ CtIdle /\ TpIdle /\ MainIdle /\ HexIdle
    /\ cvPc = "alloc"
    /\ test \in Fixtures
    /\ alloc = <<>> /\ env = <<>> /\ txs = <<>> /\ written = <<>> /\ cvErr = ""

NextConvert == ConvAlloc \/ ConvEnv \/ ConvTxs

SpecConvert == InitConvert /\ [][NextConvert]_vars

----------------------------------------------------------------------------
(* Claims about convert, checked under SpecConvert.                        *)

\* the field is absent from the source account or is one of the zero literals
ZeroOrAbsent(acct, k) == k \notin DOMAIN acct \/ acct[k] \in ZeroLiterals

\* C11 as stated: once alloc.json is written, every entry has balance "0x0"
\* when the source balance is absent or a zero literal and nonce "0x0" when
\* the source nonce is absent or a zero literal, and has no code and no
\* storage when the source has none.
C11_AsStated ==
    written # <<>> =>
        \A addr \in DOMAIN test.pre :
            LET acct == test.pre[addr]
                entry == alloc[addr]
            IN  /\ (ZeroOrAbsent(acct, "balance") =>
                        entry.balance = <<"0", "x", "0">>)
                /\ (ZeroOrAbsent(acct, "nonce") =>
                        "nonce" \in DOMAIN entry /\ entry.nonce = <<"0", "x", "0">>)
                /\ ("code" \notin DOMAIN acct => "code" \notin DOMAIN entry)
                /\ ("storage" \notin DOMAIN acct => "storage" \notin DOMAIN entry)

\* C11, amended: once alloc.json is written, there is one entry per source
\* account; every entry has a balance, which is "0x0" when the source balance
\* is absent or a zero literal; it has no nonce key when the source nonce is
\* absent or a zero literal, and else the source nonce unchanged; it has no
\* code and no storage when the source has none.
C11_ZeroBalanceNoNonce ==
    written # <<>> =>
        /\ DOMAIN alloc = DOMAIN test.pre
        /\ \A addr \in DOMAIN test.pre :
              LET acct == test.pre[addr]
                  entry == alloc[addr]
              IN  /\ "balance" \in DOMAIN entry
                  /\ (ZeroOrAbsent(acct, "balance") =>
                          entry.balance = <<"0", "x", "0">>)
                  /\ IF ZeroOrAbsent(acct, "nonce")
                     THEN "nonce" \notin DOMAIN entry
                     ELSE "nonce" \in DOMAIN entry /\ entry.nonce = acct.nonce
                  /\ ("code" \notin DOMAIN acct => "code" \notin DOMAIN entry)
                  /\ ("storage" \notin DOMAIN acct => "storage" \notin DOMAIN entry)

\* an account whose balance and nonce are both "0x00", with code: the entry
\* has balance "0x0", the code, and no nonce
C11_Witness ==
    /\ cvPc = "done"
    /\ \E addr \in DOMAIN test.pre :
          /\ DOMAIN test.pre[addr] = {"balance", "nonce", "code"}
          /\ test.pre[addr].balance = <<"0", "x", "0", "0">>
          /\ test.pre[addr].nonce = <<"0", "x", "0", "0">>
          /\ DOMAIN alloc[addr] = {"balance", "code"}
          /\ alloc[addr].balance = <<"0", "x", "0">>

\* C12: once alloc.json is written, the entry of a source account that has
\* only a balance field has exactly one key, balance.
C12_BalanceOnlyOneKey ==
    written # <<>> =>
        \A addr \in DOMAIN test.pre :
            DOMAIN test.pre[addr] = {"balance"} =>
                DOMAIN alloc[addr] = {"balance"}

\* an account with only a non-zero balance, which is copied
C12_Witness ==
    /\ cvPc = "done"
    /\ \E addr \in DOMAIN test.pre :
          /\ DOMAIN test.pre[addr] = {"balance"}
          /\ test.pre[addr].balance = <<"0", "x", "0", "1">>
          /\ DOMAIN alloc[addr] = {"balance"}
          /\ alloc[addr].balance = <<"0", "x", "0", "1">>

\* the input lacks a required env key, or env itself
EnvLacking == "env" \notin DOMAIN test \/ FirstMissing(test.env, EnvRequired) # ""

\* the input lacks the transaction key, or a required field of a transaction
TxLacking == "transaction" \notin DOMAIN test \/ FirstBadTx(test.transaction) # 0

\* C13: the files written so far are the first ones of alloc.json, env.json,
\* txs.json, in this order, and all three when convert has returned; once
\* past the step that reads it, an input without pre has failed with no file
\* written, an input (with pre) lacking a required env key has failed with
\* alloc.json alone written, and an input (with pre and env) lacking the
\* transaction key or a required transaction field has failed with alloc.json
\* and env.json written and txs.json not; after the failure no step is left
\* that would take a file back.
C13_PartialOutputs ==
    LET order == <<"alloc.json", "env.json", "txs.json">>
    IN  /\ Len(written) <= 3
        /\ written = SubSeq(order, 1, Len(written))
        /\ (cvPc = "done" <=> written = order)
        /\ (cvPc = "raised" => ~ ENABLED NextConvert)
        /\ ("pre" \notin DOMAIN test /\ cvPc # "alloc" =>
                cvPc = "raised" /\ written = <<>>)
        /\ ("pre" \in DOMAIN test /\ EnvLacking /\ cvPc \notin {"alloc", "env"} =>
                cvPc = "raised" /\ written = <<"alloc.json">>)
        /\ ("pre" \in DOMAIN test /\ ~EnvLacking /\ TxLacking
            /\ cvPc \notin {"alloc", "env", "txs"} =>
                cvPc = "raised" /\ written = <<"alloc.json", "env.json">>)

\* the second transaction lacks its nonce: two files are written, the third
\* is not
C13_Witness ==
    /\ cvPc = "raised"
    /\ cvErr = "nonce"
    /\ Len(test.transaction) = 2
    /\ written = <<"alloc.json", "env.json">>

----------------------------------------------------------------------------
(* Further claims about fetch_json, checked under SpecFetch.               *)

\* what the claim has the call do on its i-th attempt (index i - 1): the
\* request, then a delay of 2^(index + 2) after a 429, of 2 after a network
\* error on index 0 or 1, and none otherwise
AttemptEvents(i) ==
    <<ReqEvent(fjPath)>>
    \o (IF outs[i] = "429" THEN <<SleepEvent(2 ^ ((i - 1) + 2))>>
        ELSE IF outs[i] = "url" /\ i - 1 < 2 THEN <<SleepEvent(2)>>
        ELSE <<>>)

RECURSIVE AttemptsEvents(_)
AttemptsEvents(n) ==
    IF n = 0 THEN <<>> ELSE AttemptsEvents(n - 1) \o AttemptEvents(n)

\* C14: all that one call does is, for each attempt in turn, its request
\* followed by its delay: 2^(a+2) after a 429 on attempt index a (4, 8, 16), a
\* being the number of earlier attempts of any outcome; 2 after a network
\* error that is retried (index 0 or 1); and no delay after a success, another
\* HTTP error, or the network error that is raised.
C14_BackoffDelays ==
    /\ log = AttemptsEvents(Len(outs))
    /\ \A i \in 1..Len(outs) :
          outs[i] = "429" => SleepEvent(<<4, 8, 16>>[i]) \in {log[k] : k \in 1..Len(log)}

\* a network error, then two 429s: the delays are 2, 8 and 16
C14_Witness ==
    /\ outs = <<"url", "429", "429">>
    /\ Sleeps(log) = <<SleepEvent(2), SleepEvent(8), SleepEvent(16)>>
    /\ fjPc = "ret"

\* C19: one call issues one request per attempt and at most 3; once it has
\* returned or raised it has issued at least 1; a successful response is the
\* last one of the call: no attempt follows it, the call has returned its
\* decoded body, and no step is left.
C19_OneToThreeRequests ==
    /\ Len(Requests(log)) = Len(outs)
    /\ Len(outs) <= 3
    /\ (fjPc \in {"ret", "raise"} => Len(outs) >= 1)
    /\ (Len(outs) = 3 => fjPc \in {"ret", "raise"})
    /\ \A i \in 1..Len(outs) :
          outs[i] = "ok" =>
              /\ i = Len(outs)
              /\ fjPc = "ret"
              /\ fjResult \in Bodies(fjPath)
              /\ ~ ENABLED NextFetch

\* success on the third attempt, after a 429 and a network error
C19_Witness ==
    /\ outs = <<"429", "url", "ok">>
    /\ fjPc = "ret"
    /\ Truthy(fjResult)
    /\ Len(Requests(log)) = 3

----------------------------------------------------------------------------
(* Further claims about fetch_category_topics, checked under SpecCat.      *)

\* the page requests of the call and its own delays (the delays of 1 unit;
\* the delays a fetch takes between its attempts are of 2 units and more)
PagesAndDelays ==
    SelectSeq(log, LAMBDA e : \/ e.ev = "call" /\ e.path.kind = "c"
                              \/ e.ev = "sleep" /\ e.d = 1)

\* C15: the k-th page request is for page index k - 1; page requests and
\* 1-unit delays alternate, starting with a request, so that exactly one delay
\* lies between two consecutive requests; when the call is over the last of
\* them is a request, and n requests came with n - 1 delays.
C15_PagesInOrderOneDelayBetween ==
    /\ \A k \in 1..Len(PageCalls) : PageCalls[k].path.page = k - 1
    /\ \A k \in 1..Len(PagesAndDelays) :
          PagesAndDelays[k].ev = IF k % 2 = 1 THEN "call" ELSE "sleep"
    /\ (ctPc \in {"done", "raised"} =>
          /\ PageCalls # <<>>
          /\ PagesAndDelays[Len(PagesAndDelays)].ev = "call"
          /\ Len(PagesAndDelays) - Len(PageCalls) = Len(PageCalls) - 1)

\* three pages, two delays of 1 unit, and a fetch that took a delay of its own
C15_Witness ==
    /\ ctPc = "done"
    /\ Len(PageCalls) = 3
    /\ Len(SelectSeq(log, LAMBDA e : e.ev = "sleep" /\ e.d = 1)) = 2
    /\ \E k \in 1..Len(log) : log[k].ev = "sleep" /\ log[k].d > 1

\* C20: with a positive limit L the call never makes more than L page
\* requests, whatever the server answers: each page that does not end the
\* loop has added at least one topic, and when the L-th page is in the call is
\* over and no step is left.
C20_LimitBoundsPages ==
    limit > 0 =>
        /\ Len(PageCalls) <= limit
        /\ (ctPc \in {"loop", "wait"} => Len(topics) >= page /\ Len(topics) < limit)
        /\ (Len(fetched) = limit => ctPc = "done" /\ ~ ENABLED NextCat)

\* limit 3 and a server that signals more pages on every page: one topic a
\* page, the third page ends the call
C20_Witness ==
    /\ limit = 3
    /\ ctPc = "done"
    /\ Len(PageCalls) = 3
    /\ \A i \in 1..3 : Truthy(fetched[i]) /\ fetched[i].more
    /\ Len(ctResult) = 3

----------------------------------------------------------------------------
(* Further claims about fetch_topic, checked under SpecTopic.              *)

\* the posts a follow-up fetch brought: none when it gave no data or a
\* response without a post stream
Gained(m) == IF Truthy(m) /\ m.has_stream THEN m.posts ELSE <<>>

\* C16: the posts of the topic record are those of the first page followed,
\* batch by batch, by what each follow-up fetch brought, a fetch that gave no
\* data or no post stream bringing nothing; no id is asked for twice; and
\* when the call has returned, it has returned the record, and every batch of
\* the missing list was requested (ceil(m/20) of them) whatever the earlier
\* ones gave.
C16_FailedBatchSkipped ==
    tpPc \in {"loop", "more", "raised", "done"} /\ Truthy(data) =>
        LET first == Cardinality(loaded_ids)
            asked == Flatten(PostCalls)
        IN  /\ Len(mores) <= Len(PostCalls)
            /\ Len(PostCalls) <= Len(mores) + 1
            /\ (tpPc \in {"loop", "done"} => Len(mores) = Len(PostCalls))
            /\ first <= Len(data.posts)
            /\ {data.posts[i] : i \in 1..first} = loaded_ids
            /\ Drop(data.posts, first)
                 = Flatten([i \in 1..Len(mores) |-> Gained(mores[i])])
            /\ Cardinality({asked[i] : i \in 1..Len(asked)}) = Len(asked)
            /\ (tpPc = "done" =>
                  /\ tpResult = data
                  /\ Len(PostCalls)
                       = (Len(Missing(data.stream, loaded_ids)) + 19) \div 20)

\* three batches: the first gave no data, the second no post stream, the
\* third its 5 posts, which are all the record has
C16_Witness ==
    /\ tpPc = "done"
    /\ Len(mores) = 3
    /\ ~Truthy(mores[1])
    /\ Truthy(mores[2]) /\ ~mores[2].has_stream
    /\ Gained(mores[3]) # <<>>
    /\ loaded_ids = {}
    /\ tpResult.posts = PostCalls[3]
    /\ Len(tpResult.posts) = 5

\* the fetches of the call and its own delays (the delays of 1 unit)
FetchesAndDelays ==
    SelectSeq(log, LAMBDA e : \/ e.ev = "call" /\ e.path.kind \in {"t", "posts"}
                              \/ e.ev = "sleep" /\ e.d = 1)

TopicFetches == SelectSeq(log, LAMBDA e : e.ev = "call")

\* C17 as stated: fetches and 1-unit delays alternate, and a call that has
\* returned after n fetches has taken n delays.
C17_AsStated ==
    /\ \A k \in 1..Len(FetchesAndDelays) :
          FetchesAndDelays[k].ev = IF k % 2 = 1 THEN "call" ELSE "sleep"
    /\ (tpPc = "done" => Len(FetchesAndDelays) = 2 * Len(TopicFetches))

\* C17, amended: fetches and 1-unit delays alternate, starting with the
\* initial fetch; a call that has returned the topic record after n fetches
\* (the initial one and n - 1 batches, succeeded or not) has taken n delays,
\* the last one after the last fetch; a call whose initial fetch yielded no
\* data has returned None after that one fetch with no delay at all.
C17_DelayAfterFetchWithData ==
    /\ \A k \in 1..Len(FetchesAndDelays) :
          FetchesAndDelays[k].ev = IF k % 2 = 1 THEN "call" ELSE "sleep"
    /\ (tpPc = "loop" => FetchesAndDelays[Len(FetchesAndDelays)].ev = "sleep")
    /\ (tpPc = "done" /\ Truthy(tpResult) =>
          /\ Len(TopicFetches) = 1 + Len(mores)
          /\ Len(FetchesAndDelays) = 2 * Len(TopicFetches))
    /\ (tpPc = "done" /\ ~Truthy(tpResult) =>
          /\ Len(TopicFetches) = 1
          /\ FetchesAndDelays = <<CallEvent(TopicPath(tpId))>>)

\* the initial fetch and two batches, the first of which gave no post stream:
\* three fetches, three delays
C17_Witness ==
    /\ tpPc = "done"
    /\ Truthy(tpResult)
    /\ Len(TopicFetches) = 3
    /\ Gained(mores[1]) = <<>>
    /\ Len(SelectSeq(log, LAMBDA e : e.ev = "sleep" /\ e.d = 1)) = 3

----------------------------------------------------------------------------
(* A further claim about main, checked under SpecMain.                     *)

\* the place of a category in the order the category listing has it
CatRank(slug) ==
    LET order == FlattenCats(srv.cats)
    IN  CHOOSE i \in 1..Len(order) : order[i].slug = slug

\* where the topic stands in the listings main has obtained: 1000 for each
\* category before its own, 100 for coming after the listing pages, 10 for
\* each place in the listing; -1 when no listing obtained so far has it
TopicRank(id) ==
    LET has == {k \in 1..Len(listed) :
                  \E j \in 1..Len(listed[k].topics) : listed[k].topics[j].id = id}
    IN  IF has = {} THEN -1
        ELSE LET k == CHOOSE x \in has : TRUE
                 j == CHOOSE x \in 1..Len(listed[k].topics) :
                          listed[k].topics[x].id = id
             IN  CatRank(listed[k].slug) * 1000 + 100 + j * 10

\* the rank of a request or a write of category mode in the sequential
\* order: category, then listing pages by index, then topic by topic its
\* fetch, its follow-up fetches and its file
Rank(e) ==
    CASE e.ev \in {"call", "req"} /\ e.path.kind = "c" ->
            CatRank(e.path.slug) * 1000 + e.path.page
      [] e.ev \in {"call", "req"} /\ e.path.kind = "t" -> TopicRank(e.path.id)
      [] e.ev \in {"call", "req"} /\ e.path.kind = "posts" ->
            IF TopicRank(e.path.id) < 0 THEN -1 ELSE TopicRank(e.path.id) + 1
      [] e.ev = "write" ->
            IF TopicRank(e.name) < 0
               \/ TopicRank(e.name) \div 1000 # CatRank(e.dir) THEN -1
            ELSE TopicRank(e.name) + 2
      [] e.ev = "listing" -> CatRank(e.dir) * 1000 + 100

\* the requests and writes main makes after it has the category list
Work ==
    SelectSeq(log, LAMBDA e :
        \/ e.ev \in {"call", "req"} /\ e.path.kind # "categories"
        \/ e.ev \in {"write", "listing"})

\* C18: in category mode every request and write has its place in the
\* sequential order (categories as the category listing has them, for each
\* its listing pages by index, then its topics in listing order, for each
\* topic its fetch, its follow-up fetches and then its file), and they happen
\* in that order: nothing of an earlier place follows something of a later
\* one; the attempts of a fetch have the place of the fetch, and two fetches or
\* writes share a place only when both are follow-up fetches of one topic.
C18_StrictlySequential ==
    args.mode = "category" =>
        LET w == Work
        IN  /\ \A i \in 1..Len(w) :
                  LET this == Rank(w[i])
                  IN  /\ this >= 0
                      /\ i < Len(w) =>
                            LET next == Rank(w[i + 1])
                            IN  IF w[i + 1].ev = "req"
                                THEN this = next /\ w[i].ev \in {"call", "req"}
                                ELSE \/ this < next
                                     \/ /\ this = next
                                        /\ w[i].ev \in {"call", "req"}
                                        /\ w[i].path.kind = "posts"
                                        /\ w[i + 1].ev = "call"
                                        /\ w[i + 1].path.kind = "posts"
            /\ \A i \in 1..Len(sel) : i <= Len(listed) => listed[i].slug = sel[i].slug

\* every category archived: two listing pages of the first category, its
\* two topics each fetched and written, then the subcategory with its topic
C18_Witness ==
    /\ mainPc = "done"
    /\ args.mode = "category" /\ args.category = "" /\ ~args.topics_only
    /\ Len(listed) = 2
    /\ Len(listed[1].topics) = 2
    /\ Len(Writes(log)) = 3
    /\ Writes(log)[2].dir = "eips"
    /\ Writes(log)[3].dir = "core"

====
